---- MODULE Spec2Model ----
(***************************************************************************)
(* Model of dashoxide: the sampler thread of main.rs, the bounded history  *)
(* series of util/history.rs (SystemState), and the render/input loop and  *)
(* key handler of dashboard.rs, sharing one Mutex<SystemState>.            *)
(***************************************************************************)
EXTENDS Integers, Sequences, FiniteSets, TLC

\* ---------------------------------------------------------------- bounds
\* Number of sampler cycles explored by Spec (more than the capacity, so
\* that eviction happens and the 0..64 scenario is reached).
MaxUpdates == 65
\* Number of sampler cycles explored by SpecRate (free network counters).
MaxRateUpdates == 3

\* ------------------------------------------------------- program constants
Capacity == 60

ViewOrder == <<"Overview", "Cpu", "Memory", "Disk", "Network", "Processes">>

\* Terminal events: the three keys the handler matches, any other key, and a
\* non-key event (resize, mouse, focus).
KeyCodes == {"q", "Left", "Right", "Other"}

Events == KeyCodes \cup {"Resize"}

\* ------------------------------------------------------- metrics provider
\* The provider is external.  In Spec the k-th refresh (k = 1, 2, ...) yields
\* sample values that identify the cycle: CPU k-1 (so that cycles 1..65 feed
\* the samples 0..64), memory (k, MemTotal), k % 3 processes.
MemTotal == 8

CpuSample(k) == k - 1

MemSample(k) == <<k, MemTotal>>

NumProcs(k) == k % 3

DiskSample(k, j) == <<k, j>>

\* Network counters of cycle k in Spec: a saw-tooth, so that the counters
\* repeatedly fall below the previous sample.
NetStamp(k) == <<1000 * (k % 4), 500 * (k % 3)>>

\* Network counters in SpecRate: any of these pairs, in any order.
NetSamples == {<<0, 0>>, <<1000, 500>>, <<2500, 500>>, <<500, 1200>>}

VARIABLES
    system,           \* SystemState.system: the latest snapshot
    cycle,            \* number of refreshes performed by update
    cpu_history,      \* SystemState.cpu_history
    memory_history,   \* SystemState.memory_history
    disk_history,     \* SystemState.disk_history
    network_history,  \* SystemState.network_history
    mutex,            \* the Mutex around SystemState: holder and poison flag
    sampler_pc,       \* position of the sampler thread
    proc_i,           \* index of the process loop inside update
    current_view,     \* Dashboard.current_view
    should_quit,      \* Dashboard.should_quit
    run_pc,           \* position of Dashboard::run
    run_result,       \* "running", or what run returned: "ok" / "err"
    raw_mode,         \* terminal raw mode
    event,            \* the terminal event polled in this iteration
    nav,              \* right-arrow minus left-arrow dispatches, modulo 6
    frame             \* what the render pass of this iteration produced

vars == <<system, cycle, cpu_history, memory_history, disk_history,
          network_history, mutex, sampler_pc, proc_i, current_view,
          should_quit, run_pc, run_result, raw_mode, event, nav, frame>>

shared == <<system, cycle, cpu_history, memory_history, disk_history,
            network_history>>

\* The fields of Dashboard that handle_input writes, with the count of the
\* arrow keys it was given.
dash == <<current_view, should_quit, nav>>

\* ------------------------------------------------------------- helpers
Last(s) == s[Len(s)]

\* The cycle that produced the newest entry of a series (0: none yet).
LastCycle(h) == IF h = <<>> THEN 0 ELSE Last(h).cycle

Values(h) == [i \in 1..Len(h) |-> h[i].v]

Entry(val, k) == [v |-> val, cycle |-> k]

\* Vec::push followed by nothing else.
Push(h, e) == Append(h, e)

\* Mutant of Trim: the threshold is off by one.
TrimLate(h) == IF Len(h) > Capacity + 1 THEN Tail(h) ELSE h

\* Mutant of Trim: the newest entry is removed instead of the oldest.
TrimNewest(h) == IF Len(h) > Capacity THEN SubSeq(h, 1, Len(h) - 1) ELSE h

\* if len > 60 { remove(0) }
Trim(h) == IF Len(h) > Capacity THEN Tail(h) ELSE h

\* Mutant of SaturatingSub: a plain subtraction.
PlainSub(a, b) == a - b

\* u64::saturating_sub
SaturatingSub(a, b) == IF a >= b THEN a - b ELSE 0

\* The (rx, tx) rate of render_overview and render_network.
Rate(h) ==
    IF Len(h) >= 2
    THEN LET current == h[Len(h)].v
             previous == h[Len(h) - 1].v
         IN <<SaturatingSub(current[1], previous[1]),
              SaturatingSub(current[2], previous[2])>>
    ELSE <<0, 0>>

\* Mutant of RateChart: every interval is measured from the oldest entry.
RateChartFromOldest(h) ==
    [i \in 1..(Len(h) - 1) |->
        <<SaturatingSub(h[i + 1].v[1], h[1].v[1]),
          SaturatingSub(h[i + 1].v[2], h[1].v[2])>>]

\* The per-interval rates render_network charts.
RateChart(h) ==
    [i \in 1..(Len(h) - 1) |->
        <<SaturatingSub(h[i + 1].v[1], h[i].v[1]),
          SaturatingSub(h[i + 1].v[2], h[i].v[2])>>]

\* Mutant of LockResult: lock never waits for the holder.
LockResultNoWait == IF mutex.poisoned THEN "poisoned" ELSE "ok"

\* Mutex::lock as seen by a caller: it blocks while the mutex is held, and
\* returns Err when the mutex is poisoned.
LockResult ==
    IF mutex.holder # "none" THEN "blocked"
    ELSE IF mutex.poisoned THEN "poisoned"
    ELSE "ok"

\* main returns when run returns, which ends the process and the sampler.
ProcessAlive == run_pc # "returned"

EmptyFrame == [status |-> "none", view |-> "none", snap |-> -1, hist |-> -1,
               rate |-> <<>>, chart |-> <<>>]

Init ==
    /\ system = [cycle |-> 0, cpu |-> 0, mem |-> <<0, MemTotal>>, procs |-> 0]
    /\ cycle = 0
    /\ cpu_history = <<>>
    /\ memory_history = <<>>
    /\ disk_history = <<>>
    /\ network_history = <<>>
    /\ mutex = [holder |-> "none", poisoned |-> FALSE]
    /\ sampler_pc = "lock"
    /\ proc_i = 0
    /\ current_view = "Overview"
    /\ should_quit = FALSE
    /\ run_pc = "enable_raw"
    /\ run_result = "running"
    /\ raw_mode = FALSE
    /\ event = "none"
    /\ nav = 0
    /\ frame = EmptyFrame

\* ------------------------------------------------------ sampler (main.rs)
\* state_clone.lock().unwrap(): blocks while the mutex is held; on a poisoned
\* mutex unwrap panics and the sampler thread is gone.
SamplerLock(maxUpdates) ==
    /\ ProcessAlive
    /\ sampler_pc = "lock"
    /\ cycle < maxUpdates
    /\ LockResult # "blocked"
    /\ IF LockResult = "ok"
       THEN /\ mutex' = [mutex EXCEPT !.holder = "sampler"]
            /\ sampler_pc' = "refresh"
       ELSE /\ sampler_pc' = "dead"
            /\ UNCHANGED mutex
    /\ UNCHANGED <<shared, proc_i, dash, run_pc, run_result, raw_mode,
                   event, frame>>

\* self.system.refresh_all()
UpdateRefresh ==
    /\ ProcessAlive
    /\ sampler_pc = "refresh"
    /\ cycle' = cycle + 1
    /\ system' = [cycle |-> cycle + 1, cpu |-> CpuSample(cycle + 1),
                  mem |-> MemSample(cycle + 1), procs |-> NumProcs(cycle + 1)]
    /\ sampler_pc' = "cpu_push"
    /\ UNCHANGED <<cpu_history, memory_history, disk_history,
                   network_history, mutex, proc_i, dash, run_pc, run_result,
                   raw_mode, event, frame>>

UpdateCpuPush ==
    /\ ProcessAlive
    /\ sampler_pc = "cpu_push"
    /\ cpu_history' = Push(cpu_history, Entry(system.cpu, system.cycle))
    /\ sampler_pc' = "cpu_trim"
    /\ UNCHANGED <<system, cycle, memory_history, disk_history,
                   network_history, mutex, proc_i, dash, run_pc, run_result,
                   raw_mode, event, frame>>

UpdateCpuTrim ==
    /\ ProcessAlive
    /\ sampler_pc = "cpu_trim"
    /\ cpu_history' = Trim(cpu_history)
    /\ sampler_pc' = "mem_push"
    /\ UNCHANGED <<system, cycle, memory_history, disk_history,
                   network_history, mutex, proc_i, dash, run_pc, run_result,
                   raw_mode, event, frame>>

UpdateMemPush ==
    /\ ProcessAlive
    /\ sampler_pc = "mem_push"
    /\ memory_history' = Push(memory_history, Entry(system.mem, system.cycle))
    /\ sampler_pc' = "mem_trim"
    /\ UNCHANGED <<system, cycle, cpu_history, disk_history,
                   network_history, mutex, proc_i, dash, run_pc, run_result,
                   raw_mode, event, frame>>

\* Mutant of UpdateMemTrim: memory_history is never trimmed.
UpdateMemTrimSkips ==
    /\ ProcessAlive
    /\ sampler_pc = "mem_trim"
    /\ sampler_pc' = "disk_loop"
    /\ proc_i' = 0
    /\ UNCHANGED <<shared, mutex, dash, run_pc, run_result, raw_mode, event,
                   frame>>

UpdateMemTrim ==
    /\ ProcessAlive
    /\ sampler_pc = "mem_trim"
    /\ memory_history' = Trim(memory_history)
    /\ sampler_pc' = "disk_loop"
    /\ proc_i' = 0
    /\ UNCHANGED <<system, cycle, cpu_history, disk_history,
                   network_history, mutex, dash, run_pc, run_result,
                   raw_mode, event, frame>>

\* for (pid, process) in self.system.processes(): one push per process
UpdateDiskPush ==
    /\ ProcessAlive
    /\ sampler_pc = "disk_loop"
    /\ proc_i < system.procs
    /\ disk_history' = Push(disk_history,
                            Entry(DiskSample(system.cycle, proc_i + 1),
                                  system.cycle))
    /\ proc_i' = proc_i + 1
    /\ sampler_pc' = "disk_trim"
    /\ UNCHANGED <<system, cycle, cpu_history, memory_history,
                   network_history, mutex, dash, run_pc, run_result,
                   raw_mode, event, frame>>

UpdateDiskTrim ==
    /\ ProcessAlive
    /\ sampler_pc = "disk_trim"
    /\ disk_history' = Trim(disk_history)
    /\ sampler_pc' = "disk_loop"
    /\ UNCHANGED <<system, cycle, cpu_history, memory_history,
                   network_history, mutex, proc_i, dash, run_pc, run_result,
                   raw_mode, event, frame>>

UpdateDiskDone ==
    /\ ProcessAlive
    /\ sampler_pc = "disk_loop"
    /\ proc_i >= system.procs
    /\ sampler_pc' = "net_push"
    /\ UNCHANGED <<shared, mutex, proc_i, dash, run_pc, run_result,
                   raw_mode, event, frame>>

\* Networks::new_with_refreshed_list(), the sum over the interfaces, and the
\* push of the (rx, tx) pair; net is what the provider returned.
UpdateNetPush(net) ==
    /\ ProcessAlive
    /\ sampler_pc = "net_push"
    /\ network_history' = Push(network_history, Entry(net, system.cycle))
    /\ sampler_pc' = "net_trim"
    /\ UNCHANGED <<system, cycle, cpu_history, memory_history, disk_history,
                   mutex, proc_i, dash, run_pc, run_result, raw_mode, event,
                   frame>>

UpdateNetTrim ==
    /\ ProcessAlive
    /\ sampler_pc = "net_trim"
    /\ network_history' = Trim(network_history)
    /\ sampler_pc' = "unlock"
    /\ UNCHANGED <<system, cycle, cpu_history, memory_history, disk_history,
                   mutex, proc_i, dash, run_pc, run_result, raw_mode, event,
                   frame>>

\* Mutant of SamplerUnlock: the sleep is inside the block that owns the guard.
SamplerUnlockKeepsGuard ==
    /\ ProcessAlive
    /\ sampler_pc = "unlock"
    /\ sampler_pc' = "sleep"
    /\ UNCHANGED <<shared, mutex, proc_i, dash, run_pc, run_result, raw_mode,
                   event, frame>>

\* The guard goes out of scope at the end of the inner block.
SamplerUnlock ==
    /\ ProcessAlive
    /\ sampler_pc = "unlock"
    /\ mutex' = [mutex EXCEPT !.holder = "none"]
    /\ sampler_pc' = "sleep"
    /\ UNCHANGED <<shared, proc_i, dash, run_pc, run_result, raw_mode,
                   event, frame>>

\* Mutant of SamplerSleep: the sampler stops once the quit flag is set.
SamplerSleepChecksQuit ==
    /\ ProcessAlive
    /\ ~should_quit
    /\ sampler_pc = "sleep"
    /\ sampler_pc' = "lock"
    /\ UNCHANGED <<shared, mutex, proc_i, dash, run_pc, run_result,
                   raw_mode, event, frame>>

\* thread::sleep(Duration::from_secs(1)) returns.
SamplerSleep ==
    /\ ProcessAlive
    /\ sampler_pc = "sleep"
    /\ sampler_pc' = "lock"
    /\ UNCHANGED <<shared, mutex, proc_i, dash, run_pc, run_result,
                   raw_mode, event, frame>>

\* A panic inside one of update's calls into the metrics provider
\* (refresh_all, Networks::new_with_refreshed_list) unwinds the sampler
\* thread while it holds the guard: the guard is dropped, which releases
\* the mutex and marks it poisoned.
SamplerPanic ==
    /\ ProcessAlive
    /\ sampler_pc \in {"refresh", "net_push"}
    /\ mutex' = [holder |-> "none", poisoned |-> TRUE]
    /\ sampler_pc' = "dead"
    /\ UNCHANGED <<shared, proc_i, dash, run_pc, run_result, raw_mode,
                   event, frame>>

\* ------------------------------------------- view state machine (dashboard.rs)
\* Mutant of PrevView: no wrap-around from Overview.
PrevViewNoWrap(v) ==
    CASE v = "Overview" -> "Overview"
      [] v = "Cpu" -> "Overview"
      [] v = "Memory" -> "Cpu"
      [] v = "Disk" -> "Memory"
      [] v = "Network" -> "Disk"
      [] v = "Processes" -> "Network"

\* KeyCode::Left arm of handle_input
PrevView(v) ==
    CASE v = "Overview" -> "Processes"
      [] v = "Cpu" -> "Overview"
      [] v = "Memory" -> "Cpu"
      [] v = "Disk" -> "Memory"
      [] v = "Network" -> "Disk"
      [] v = "Processes" -> "Network"

\* Mutant of NextView: no wrap-around from Processes.
NextViewNoWrap(v) ==
    CASE v = "Overview" -> "Cpu"
      [] v = "Cpu" -> "Memory"
      [] v = "Memory" -> "Disk"
      [] v = "Disk" -> "Network"
      [] v = "Network" -> "Processes"
      [] v = "Processes" -> "Processes"

\* KeyCode::Right arm of handle_input
NextView(v) ==
    CASE v = "Overview" -> "Cpu"
      [] v = "Cpu" -> "Memory"
      [] v = "Memory" -> "Disk"
      [] v = "Disk" -> "Network"
      [] v = "Network" -> "Processes"
      [] v = "Processes" -> "Overview"

\* Mutant of HandleInput: the default arm quits.
HandleInputDefaultQuits(view, quit, key) ==
    CASE key = "q" -> [view |-> view, quit |-> TRUE]
      [] key = "Left" -> [view |-> PrevView(view), quit |-> quit]
      [] key = "Right" -> [view |-> NextView(view), quit |-> quit]
      [] OTHER -> [view |-> view, quit |-> TRUE]

\* handle_input(key): the view and the quit flag after the key
HandleInput(view, quit, key) ==
    CASE key = "q" -> [view |-> view, quit |-> TRUE]
      [] key = "Left" -> [view |-> PrevView(view), quit |-> quit]
      [] key = "Right" -> [view |-> NextView(view), quit |-> quit]
      [] OTHER -> [view |-> view, quit |-> quit]

\* ------------------------------------------------- Dashboard::run and render
\* Mutant of PoisonedRender: the Err is unwrapped, which ends run.
PoisonedRenderUnwrap(view) ==
    [status |-> "none", pc |-> "returned", holds |-> FALSE]

\* What a render function does when lock() returns Err: render_memory and
\* render_network keep the Result (and with it the guard inside the
\* PoisonError) in state_guard while they draw an error paragraph; the other
\* four drop it and just return.
PoisonedRender(view) ==
    IF view \in {"Memory", "Network"}
    THEN [status |-> "error", pc |-> "err_ret", holds |-> TRUE]
    ELSE [status |-> "blank", pc |-> "flush", holds |-> FALSE]

\* Mutant of LoopContinues: the loop ignores the quit flag.
LoopForever(quit) == TRUE

\* while !self.should_quit
LoopContinues(quit) == ~quit

\* The views whose render function reads state.system.
ReadsSystem(view) == view \in {"Overview", "Cpu", "Memory", "Processes"}

\* Mutant of RunFails: the error is recorded and the loop goes on.
RunFailsContinues ==
    /\ run_pc' = "loop"
    /\ run_result' = "err"

\* An I/O call of run failed: `?` returns the error from run.
RunFails ==
    /\ run_pc' = "returned"
    /\ run_result' = "err"

\* enable_raw_mode()?
RunEnableRaw ==
    /\ run_pc = "enable_raw"
    /\ \/ /\ raw_mode' = TRUE
          /\ run_pc' = "term_new"
          /\ UNCHANGED run_result
       \/ /\ RunFails
          /\ UNCHANGED raw_mode
    /\ UNCHANGED <<shared, mutex, sampler_pc, proc_i, dash, event, frame>>

\* Terminal::new(backend)?
RunTermNew ==
    /\ run_pc = "term_new"
    /\ \/ /\ run_pc' = "clear"
          /\ UNCHANGED run_result
       \/ RunFails
    /\ UNCHANGED <<shared, mutex, sampler_pc, proc_i, dash, raw_mode, event,
                   frame>>

\* terminal.clear()?
RunClear ==
    /\ run_pc = "clear"
    /\ \/ /\ run_pc' = "loop"
          /\ UNCHANGED run_result
       \/ RunFails
    /\ UNCHANGED <<shared, mutex, sampler_pc, proc_i, dash, raw_mode, event,
                   frame>>

\* The loop condition, evaluated at the top of every iteration.
RunLoop ==
    /\ run_pc = "loop"
    /\ run_pc' = IF LoopContinues(should_quit) THEN "draw" ELSE "disable_raw"
    /\ event' = "none"
    /\ UNCHANGED <<shared, mutex, sampler_pc, proc_i, dash, run_result,
                   raw_mode, frame>>

\* terminal.draw: the tab bar, then the render function of the current view,
\* which starts with self.system_state.lock().
RenderLock ==
    /\ run_pc = "draw"
    /\ LockResult # "blocked"
    /\ IF LockResult = "ok"
       THEN /\ mutex' = [mutex EXCEPT !.holder = "render"]
            /\ frame' = [EmptyFrame EXCEPT !.status = "ok",
                                           !.view = current_view]
            /\ run_pc' = "snap"
       ELSE /\ frame' = [EmptyFrame EXCEPT
                           !.status = PoisonedRender(current_view).status,
                           !.view = current_view]
            /\ run_pc' = PoisonedRender(current_view).pc
            /\ mutex' = IF PoisonedRender(current_view).holds
                        THEN [mutex EXCEPT !.holder = "render"]
                        ELSE mutex
    /\ UNCHANGED <<shared, sampler_pc, proc_i, dash, run_result, raw_mode,
                   event>>

\* Mutant of RenderSnapshot: the render function refreshes the snapshot
\* itself before reading it.
RenderSnapshotRefreshes ==
    /\ run_pc = "snap"
    /\ system' = [system EXCEPT !.cpu = 0]
    /\ frame' = [frame EXCEPT
                   !.snap = IF ReadsSystem(current_view)
                            THEN system.cycle ELSE -1]
    /\ run_pc' = "hist"
    /\ UNCHANGED <<cycle, cpu_history, memory_history, disk_history,
                   network_history, mutex, sampler_pc, proc_i, dash,
                   run_result, raw_mode, event>>

\* The reads of state.system (cpu usage, memory, processes) under the guard.
RenderSnapshot ==
    /\ run_pc = "snap"
    /\ frame' = [frame EXCEPT
                   !.snap = IF ReadsSystem(current_view)
                            THEN system.cycle ELSE -1]
    /\ run_pc' = "hist"
    /\ UNCHANGED <<shared, mutex, sampler_pc, proc_i, dash, run_result,
                   raw_mode, event>>

\* The reads of the history series under the guard: the network rate of
\* render_overview and render_network, the charts of render_cpu and
\* render_network.
RenderHistory ==
    /\ run_pc = "hist"
    /\ frame' =
         CASE current_view = "Overview" ->
                [frame EXCEPT !.hist = LastCycle(network_history),
                              !.rate = Rate(network_history)]
           [] current_view = "Cpu" ->
                [frame EXCEPT !.hist = LastCycle(cpu_history),
                              !.chart = Values(cpu_history)]
           [] current_view = "Network" ->
                [frame EXCEPT !.hist = LastCycle(network_history),
                              !.rate = Rate(network_history),
                              !.chart = RateChart(network_history)]
           [] OTHER -> frame
    /\ run_pc' = "ret"
    /\ UNCHANGED <<shared, mutex, sampler_pc, proc_i, dash, run_result,
                   raw_mode, event>>

\* Mutant of RenderReturn: the guard outlives the render function.
RenderReturnKeepsGuard ==
    /\ run_pc = "ret"
    /\ frame' = [EmptyFrame EXCEPT !.status = frame.status,
                                   !.view = frame.view]
    /\ run_pc' = "flush"
    /\ UNCHANGED <<shared, mutex, sampler_pc, proc_i, dash, run_result,
                   raw_mode, event>>

\* The render function returns: the guard is dropped.  Only the kind of
\* frame is kept for the rest of the iteration.
RenderReturn ==
    /\ run_pc = "ret"
    /\ mutex' = [mutex EXCEPT !.holder = "none"]
    /\ frame' = [EmptyFrame EXCEPT !.status = frame.status,
                                   !.view = frame.view]
    /\ run_pc' = "flush"
    /\ UNCHANGED <<shared, sampler_pc, proc_i, dash, run_result, raw_mode,
                   event>>

\* render_memory / render_network return after the error paragraph: the
\* Result holding the guard of the poisoned mutex is dropped.
RenderErrReturn ==
    /\ run_pc = "err_ret"
    /\ mutex' = [mutex EXCEPT !.holder = "none"]
    /\ run_pc' = "flush"
    /\ UNCHANGED <<shared, sampler_pc, proc_i, dash, run_result, raw_mode,
                   event, frame>>

\* A panic in a render function while it holds the guard (an overflowing
\* total_space() - available_space(), a panic inside a widget or provider
\* call): the main thread unwinds, the guard is dropped and the mutex is
\* poisoned.
RenderPanic ==
    /\ run_pc \in {"snap", "hist"}
    /\ mutex' = [holder |-> "none", poisoned |-> TRUE]
    /\ run_pc' = "unwinding"
    /\ run_result' = "panic"
    /\ UNCHANGED <<shared, sampler_pc, proc_i, dash, raw_mode, event, frame>>

\* The panic of the main thread ends the process.
RunAbort ==
    /\ run_pc = "unwinding"
    /\ run_pc' = "returned"
    /\ UNCHANGED <<shared, mutex, sampler_pc, proc_i, dash, run_result,
                   raw_mode, event, frame>>

\* The end of terminal.draw(..)?: the frame is written to the terminal.
RunFlush ==
    /\ run_pc = "flush"
    /\ \/ /\ run_pc' = "poll"
          /\ UNCHANGED run_result
       \/ RunFails
    /\ UNCHANGED <<shared, mutex, sampler_pc, proc_i, dash, raw_mode, event,
                   frame>>

\* event::poll(100 ms)?: an error, a timeout, or an event is available.
RunPoll ==
    /\ run_pc = "poll"
    /\ \/ /\ RunFails
          /\ UNCHANGED event
       \/ /\ run_pc' = "loop"
          /\ UNCHANGED <<run_result, event>>
       \/ \E e \in Events :
            /\ event' = e
            /\ run_pc' = "read"
            /\ UNCHANGED run_result
    /\ UNCHANGED <<shared, mutex, sampler_pc, proc_i, dash, raw_mode, frame>>

\* Mutant of RunRead: after a dispatch the loop polls again before it
\* renders.
RunReadDrains ==
    /\ run_pc = "read"
    /\ \/ /\ RunFails
          /\ UNCHANGED dash
       \/ /\ run_pc' = "poll"
          /\ UNCHANGED run_result
          /\ IF event \in KeyCodes
             THEN /\ current_view' =
                        HandleInput(current_view, should_quit, event).view
                  /\ should_quit' =
                        HandleInput(current_view, should_quit, event).quit
                  /\ nav' = CASE event = "Right" -> (nav + 1) % 6
                               [] event = "Left" -> (nav + 5) % 6
                               [] OTHER -> nav
             ELSE UNCHANGED dash
    /\ UNCHANGED <<shared, mutex, sampler_pc, proc_i, raw_mode, event, frame>>

\* event::read()? and, for a key event, handle_input(key.code).
RunRead ==
    /\ run_pc = "read"
    /\ \/ /\ RunFails
          /\ UNCHANGED dash
       \/ /\ run_pc' = "loop"
          /\ UNCHANGED run_result
          /\ IF event \in KeyCodes
             THEN /\ current_view' =
                        HandleInput(current_view, should_quit, event).view
                  /\ should_quit' =
                        HandleInput(current_view, should_quit, event).quit
                  /\ nav' = CASE event = "Right" -> (nav + 1) % 6
                               [] event = "Left" -> (nav + 5) % 6
                               [] OTHER -> nav
             ELSE UNCHANGED dash
    /\ UNCHANGED <<shared, mutex, sampler_pc, proc_i, raw_mode, event, frame>>

\* disable_raw_mode()? after the loop
RunDisableRaw ==
    /\ run_pc = "disable_raw"
    /\ \/ /\ raw_mode' = FALSE
          /\ run_pc' = "final_clear"
          /\ UNCHANGED run_result
       \/ /\ RunFails
          /\ UNCHANGED raw_mode
    /\ UNCHANGED <<shared, mutex, sampler_pc, proc_i, dash, event, frame>>

\* terminal.clear()? and Ok(())
RunFinalClear ==
    /\ run_pc = "final_clear"
    /\ run_pc' = "returned"
    /\ run_result' \in {"ok", "err"}
    /\ UNCHANGED <<shared, mutex, sampler_pc, proc_i, dash, raw_mode, event,
                   frame>>

\* ------------------------------------------------------- specifications
SamplerUpdate ==
    \/ UpdateRefresh
    \/ UpdateCpuPush
    \/ UpdateCpuTrim
    \/ UpdateMemPush
    \/ UpdateMemTrim
    \/ UpdateDiskPush
    \/ UpdateDiskTrim
    \/ UpdateDiskDone
    \/ UpdateNetTrim
    \/ SamplerUnlock
    \/ SamplerSleep
    \/ SamplerPanic

RunStep ==
    \/ RunEnableRaw
    \/ RunTermNew
    \/ RunClear
    \/ RunLoop
    \/ RenderLock
    \/ RenderSnapshot
    \/ RenderHistory
    \/ RenderReturn
    \/ RenderErrReturn
    \/ RenderPanic
    \/ RunAbort
    \/ RunFlush
    \/ RunPoll
    \/ RunRead
    \/ RunDisableRaw
    \/ RunFinalClear

\* The sampler's lock and network sample when the provider feeds the
\* cycle-stamped samples.
StampLock == SamplerLock(MaxUpdates)

StampNetPush == UpdateNetPush(NetStamp(system.cycle))

Next ==
    \/ StampLock
    \/ StampNetPush
    \/ SamplerUpdate
    \/ RunStep

Spec == Init /\ [][Next]_vars

\* Spec under the scheduling the two loops get: every thread that can take
\* a step eventually takes one, and a thread that finds the mutex free again
\* and again eventually gets it (the sampler spends its 1 s sleep, the
\* render loop its flush and its 100 ms poll, outside the mutex).
Fairness ==
    /\ WF_vars(SamplerUpdate)
    /\ WF_vars(StampNetPush)
    /\ WF_vars(RunStep)
    /\ SF_vars(StampLock)
    /\ SF_vars(RenderLock)

SpecFair == Init /\ [][Next]_vars /\ Fairness

\* The sampler's lock and network sample when the provider feeds arbitrary
\* network counters.
RateLock == SamplerLock(MaxRateUpdates)

RateNetPush == \E net \in NetSamples : UpdateNetPush(net)

NextRate ==
    \/ RateLock
    \/ RateNetPush
    \/ SamplerUpdate
    \/ RunStep

SpecRate == Init /\ [][NextRate]_vars

\* ------------------------------------------------------------ properties
\* A state that a lock holder other than the updater can observe.
NoUpdateInProgress == mutex.holder # "sampler"

\* The last min(n, 60) of the samples sample(1), ..., sample(n), in order.
LastSamples(n, sample(_)) ==
    LET m == IF n < 60 THEN n ELSE 60
    IN [i \in 1..m |-> sample(n - m + i)]

\* C1: whenever no update is in progress, cpu_history, memory_history and
\* network_history each have at most 60 entries.
C1_HistoryBounded ==
    NoUpdateInProgress =>
        /\ Len(cpu_history) <= 60
        /\ Len(memory_history) <= 60
        /\ Len(network_history) <= 60

\* More than 60 updates have completed and the series are full.
C1_Witness ==
    /\ NoUpdateInProgress
    /\ sampler_pc = "sleep"
    /\ cycle > 60
    /\ Len(cpu_history) = 60
    /\ Len(memory_history) = 60
    /\ Len(network_history) = 60

\* C2: after n updates a series read oldest-to-newest is the last min(n, 60)
\* appended values in insertion order; after the CPU samples 0..64 it is
\* 5..64 (60 entries, index 0 = 5, last index = 64).
C2_FifoWindow ==
    NoUpdateInProgress =>
        /\ Values(cpu_history) = LastSamples(cycle, CpuSample)
        /\ Values(memory_history) = LastSamples(cycle, MemSample)
        /\ ~mutex.poisoned =>
             Values(network_history) = LastSamples(cycle, NetStamp)
        /\ cycle = 65 =>
             /\ Len(cpu_history) = 60
             /\ cpu_history[1].v = 5
             /\ cpu_history[60].v = 64
             /\ \A i \in 1..60 : cpu_history[i].v = i + 4

\* The 65 CPU samples 0..64 have been appended.
C2_Witness ==
    /\ NoUpdateInProgress
    /\ sampler_pc = "sleep"
    /\ cycle = 65
    /\ cpu_history[1].v = 5
    /\ cpu_history[60].v = 64

\* max(0, a - b)
ClampedDiff(a, b) == IF a - b > 0 THEN a - b ELSE 0

\* A render pass of a view that shows the network rate has computed it and
\* still holds the guard.
RateComputed == run_pc = "ret" /\ current_view \in {"Overview", "Network"}

\* C3: the rate is (0,0) with fewer than 2 entries, otherwise
\* max(0, newest - second newest) per component; for (0,0), (1000,500),
\* (2500,500) it is (1000,500) after the 2nd and (1500,0) after the 3rd.
C3_NetworkRate ==
    RateComputed =>
        LET h == Values(network_history)
            n == Len(h)
        IN /\ n < 2 => frame.rate = <<0, 0>>
           /\ n >= 2 =>
                frame.rate = <<ClampedDiff(h[n][1], h[n - 1][1]),
                               ClampedDiff(h[n][2], h[n - 1][2])>>
           /\ frame.rate[1] >= 0 /\ frame.rate[2] >= 0
           /\ h = <<(<<0, 0>>), (<<1000, 500>>)>> =>
                frame.rate = <<1000, 500>>
           /\ h = <<(<<0, 0>>), (<<1000, 500>>), (<<2500, 500>>)>> =>
                frame.rate = <<1500, 0>>

\* The rate after the third append of the scenario, as rendered.
C3_Witness ==
    /\ RateComputed
    /\ Values(network_history) =
         <<(<<0, 0>>), (<<1000, 500>>), (<<2500, 500>>)>>
    /\ frame.rate = <<1500, 0>>

\* Position of a view in the cyclic order (1..6).
Index(v) == CHOOSE i \in 1..6 : ViewOrder[i] = v

\* Successor and predecessor in the cyclic order, by position.
Succ(v) == ViewOrder[(Index(v) % 6) + 1]

Pred(v) == ViewOrder[((Index(v) + 4) % 6) + 1]

RECURSIVE AdvanceN(_, _)
\* The view after k right-arrow keys.
AdvanceN(v, k) ==
    IF k = 0 THEN v
    ELSE AdvanceN(HandleInput(v, FALSE, "Right").view, k - 1)

\* This step is run's dispatch of the polled event.
Dispatch == run_pc = "read" /\ run_pc' = "loop"

\* C4: the right arrow moves the view to its successor in the cyclic order
\* Overview, Cpu, Memory, Disk, Network, Processes, Overview; six advances
\* return to the starting view and no smaller positive number does.
C4_AdvanceCycle ==
    [][(Dispatch /\ event = "Right") =>
          /\ current_view' = Succ(current_view)
          /\ AdvanceN(current_view, 6) = current_view
          /\ \A k \in 1..5 : AdvanceN(current_view, k) # current_view]_vars

\* A right arrow has just wrapped the view from Processes to Overview.
C4_Witness ==
    /\ run_pc = "loop"
    /\ event = "Right"
    /\ current_view = "Overview"

\* C5: the left arrow moves the view to its predecessor in the cyclic order
\* (Overview to Processes) and is the inverse of the right arrow.
C5_RetreatInverse ==
    [][/\ (Dispatch /\ event = "Left") =>
             /\ current_view' = Pred(current_view)
             /\ HandleInput(current_view', should_quit', "Right").view
                  = current_view
       /\ (Dispatch /\ event = "Right") =>
             HandleInput(current_view', should_quit', "Left").view
                  = current_view]_vars

\* A left arrow has just moved the view to Processes.
C5_Witness ==
    /\ run_pc = "loop"
    /\ event = "Left"
    /\ current_view = "Processes"

\* C6: once the quit flag is set it is never cleared, the view never
\* changes again, and no further event is read for dispatch.
C6_QuitIsTerminal ==
    [][should_quit =>
          /\ should_quit'
          /\ current_view' = current_view
          /\ run_pc' # "read"]_vars

\* The flag was set away from the initial view and run has returned.
C6_Witness ==
    /\ should_quit
    /\ current_view = "Disk"
    /\ run_pc = "returned"
    /\ run_result = "ok"

\* C7: 'q' sets the quit flag and keeps the view; left and right arrows
\* apply retreat and advance and keep the quit flag; every other key and
\* every non-key event keeps both.
C7_KeyDispatch ==
    [][Dispatch =>
          CASE event = "q" ->
                 should_quit' /\ current_view' = current_view
            [] event = "Left" ->
                 current_view' = Pred(current_view)
                 /\ should_quit' = should_quit
            [] event = "Right" ->
                 current_view' = Succ(current_view)
                 /\ should_quit' = should_quit
            [] OTHER ->
                 current_view' = current_view
                 /\ should_quit' = should_quit]_vars

\* An unmapped key was dispatched in a view other than the initial one.
C7_Witness ==
    /\ run_pc = "loop"
    /\ event = "Other"
    /\ current_view = "Memory"
    /\ ~should_quit

\* The render function holds the guard it got from a successful lock().
RenderHoldsGuard == run_pc \in {"snap", "hist", "ret"}

\* The sampler is between its lock() and the drop of its guard.
UpdateRunning ==
    sampler_pc \in {"refresh", "cpu_push", "cpu_trim", "mem_push",
                    "mem_trim", "disk_loop", "disk_trim", "net_push",
                    "net_trim", "unlock"}

\* C8: update and read critical sections never overlap, and what a read
\* sees (snapshot and the three series) comes from one and the same update.
C8_NoTornRead ==
    /\ ~(RenderHoldsGuard /\ UpdateRunning)
    /\ RenderHoldsGuard =>
         /\ LastCycle(cpu_history) = system.cycle
         /\ LastCycle(memory_history) = system.cycle
         /\ LastCycle(network_history) = system.cycle
    /\ (run_pc = "ret" /\ frame.snap # -1 /\ frame.hist # -1) =>
         frame.snap = frame.hist

\* A read of snapshot and history while the sampler waits for the lock.
C8_Witness ==
    /\ run_pc = "ret"
    /\ current_view = "Overview"
    /\ sampler_pc = "lock"
    /\ frame.snap = 61
    /\ frame.hist = 61

\* The render pass of this iteration found the lock poisoned.
PoisonSeen == frame.status \in {"blank", "error"}

\* C9: a render pass that finds the lock poisoned shows an error in every
\* view, it never renders nothing.
C9_PoisonVisible == frame.status # "blank"

\* C10: a poisoned lock found by a render pass does not end the loop: the
\* pass is followed by the input poll, the event is dispatched as usual and
\* the next iteration starts.
C10_PoisonNotFatal ==
    [][/\ (run_pc = "draw" /\ mutex.poisoned /\ run_pc' # run_pc) =>
             /\ run_pc' \in {"flush", "err_ret"}
             /\ run_result' = "running"
             /\ PoisonSeen'
       /\ (run_pc = "err_ret" /\ run_pc' # run_pc) =>
             /\ run_pc' = "flush"
             /\ run_result' = "running"
       /\ (PoisonSeen /\ run_pc = "flush" /\ run_pc' # run_pc) =>
             \/ run_pc' = "poll"
             \/ run_result' = "err"
       /\ (PoisonSeen /\ run_pc = "poll" /\ run_pc' # run_pc) =>
             \/ run_pc' \in {"read", "loop"}
             \/ run_result' = "err"
       /\ (PoisonSeen /\ Dispatch) =>
             /\ event = "q" => should_quit'
             /\ event = "Right" => current_view' = Succ(current_view)
             /\ event = "Left" => current_view' = Pred(current_view)
       /\ (PoisonSeen /\ run_pc = "loop" /\ run_pc' # run_pc) =>
             run_pc' = IF should_quit THEN "disable_raw" ELSE "draw"]_vars

\* After a render pass that found the lock poisoned, a key was dispatched.
C10_Witness ==
    /\ mutex.poisoned
    /\ PoisonSeen
    /\ run_pc = "loop"
    /\ event = "Right"
    /\ current_view = "Memory"

\* C11: a sampler that finds the lock poisoned skips the update of that
\* cycle and goes on to its sleep and the next cycle; it does not end.
C11_SamplerSkipsPoisoned ==
    [][(sampler_pc = "lock" /\ mutex.poisoned /\ sampler_pc' # sampler_pc) =>
          /\ sampler_pc' = "sleep"
          /\ shared' = shared]_vars

\* C12: whenever run returns after raw mode was enabled, by the normal quit
\* or by an I/O error, the terminal is back in non-raw mode.
C12_RawModeRestored ==
    (run_pc = "returned" /\ run_result \in {"ok", "err"}) => ~raw_mode

\* The positions of run inside an iteration of the loop.
InIteration ==
    run_pc \in {"draw", "snap", "hist", "ret", "err_ret", "flush", "poll",
                "read"}

\* C13: after a quit key is dispatched there is no further render pass,
\* poll or dispatch, and run returns whatever the sampler does.
C13_QuitEndsLoop ==
    /\ [][should_quit => ~InIteration']_vars
    /\ (should_quit ~> run_pc = "returned")

\* run returned after the quit key while the sampler was inside update.
C13_Witness ==
    /\ should_quit
    /\ run_pc = "returned"
    /\ mutex.holder = "sampler"
    /\ sampler_pc = "mem_push"

\* A thread is waiting in lock() for the other one.
SamplerBlocked ==
    ProcessAlive /\ sampler_pc = "lock" /\ mutex.holder # "none"

RenderBlocked == run_pc = "draw" /\ mutex.holder # "none"

\* The positions at which a render function holds a guard.
RenderCritical == run_pc \in {"snap", "hist", "ret", "err_ret"}

\* C14: no thread asks for the lock it holds, and a thread waiting for the
\* lock waits for the other one, which is inside its critical section and
\* not waiting itself: the two are never both blocked.
C14_NoDeadlock ==
    /\ ~(SamplerBlocked /\ RenderBlocked)
    /\ SamplerBlocked => mutex.holder = "render" /\ RenderCritical
    /\ RenderBlocked => mutex.holder = "sampler" /\ UpdateRunning
    /\ mutex.holder = "sampler" => UpdateRunning
    /\ (mutex.holder = "render" /\ ProcessAlive) => RenderCritical

\* The sampler waits in lock() while a render function holds the guard.
C14_Witness ==
    /\ SamplerBlocked
    /\ cycle < MaxUpdates
    /\ run_pc = "hist"
    /\ cycle > 0

\* C15: the sampler does not hold the lock while it sleeps, and the render
\* loop does not hold it while it waits for or reads an input event.
C15_NoSuspendUnderLock ==
    /\ sampler_pc = "sleep" => mutex.holder # "sampler"
    /\ run_pc \in {"poll", "read"} => mutex.holder # "render"
    /\ (sampler_pc = "sleep" /\ run_pc \in {"poll", "read"}) =>
         mutex.holder = "none"

\* The sampler sleeps and the render loop polls, after an update.
C15_Witness ==
    /\ sampler_pc = "sleep"
    /\ run_pc = "poll"
    /\ cycle > 0
    /\ frame.status = "ok"
    /\ mutex.holder = "none"

\* The sampler has called lock() for a new cycle.
SamplerWaits == ProcessAlive /\ sampler_pc = "lock" /\ cycle < MaxUpdates

\* C16: under fair scheduling a sampler that asks for the lock eventually
\* starts its update while the render loop keeps rendering, and a render
\* pass that asks for the lock eventually gets its read while the sampler
\* keeps sampling (unless the mutex is poisoned or the process has ended).
C16_NoStarvation ==
    /\ SamplerWaits ~>
         (sampler_pc = "refresh" \/ mutex.poisoned \/ ~ProcessAlive)
    /\ (run_pc = "draw") ~> (run_pc = "snap" \/ mutex.poisoned)

\* A render pass got the lock after two updates, and the sampler is
\* asking for it again.
C16_Witness ==
    /\ SamplerWaits
    /\ run_pc = "snap"
    /\ mutex.holder = "render"
    /\ cycle = 2

\* The number of entries of a series that cycle k appended.
AppendedBy(h, k) == Cardinality({i \in 1..Len(h) : h[i].cycle = k})

\* C17: a completed update has appended exactly one entry to each of
\* cpu_history, memory_history, disk_history and network_history, whatever
\* the number of processes.
C17_OneEntryPerCycle ==
    sampler_pc = "unlock" =>
        /\ AppendedBy(cpu_history, system.cycle) = 1
        /\ AppendedBy(memory_history, system.cycle) = 1
        /\ AppendedBy(disk_history, system.cycle) = 1
        /\ AppendedBy(network_history, system.cycle) = 1

\* The three series have the same length, min(completed updates, 60), and
\* their entries at the same index come from the same update.
SeriesAligned ==
    LET n == IF cycle < 60 THEN cycle ELSE 60
    IN /\ Len(cpu_history) = n
       /\ Len(memory_history) = n
       /\ Len(network_history) = n
       /\ \A i \in 1..n :
            /\ cpu_history[i].cycle = cycle - n + i
            /\ memory_history[i].cycle = cpu_history[i].cycle
            /\ network_history[i].cycle = cpu_history[i].cycle

NetPushStep == sampler_pc = "net_push" /\ sampler_pc' = "net_trim"

\* C19: a network pair lower than the previous one is appended like any
\* other; every charted per-interval rate is max(0, entry i - entry i-1),
\* so it is never negative, it is 0 in a component that fell, and the
\* interval after a fall is measured from the new, lower entry.
C19_CounterDrop ==
    /\ [][NetPushStep =>
            /\ Len(network_history') = Len(network_history) + 1
            /\ SubSeq(network_history', 1, Len(network_history))
                 = network_history]_vars
    /\ [](( run_pc = "ret" /\ current_view = "Network") =>
            LET h == Values(network_history)
            IN /\ Len(frame.chart) = (IF h = <<>> THEN 0 ELSE Len(h) - 1)
               /\ \A i \in 1..Len(frame.chart) :
                    /\ frame.chart[i][1] >= 0
                    /\ frame.chart[i][2] >= 0
                    /\ frame.chart[i][1] = ClampedDiff(h[i + 1][1], h[i][1])
                    /\ frame.chart[i][2] = ClampedDiff(h[i + 1][2], h[i][2])
                    /\ h[i + 1][1] < h[i][1] => frame.chart[i][1] = 0
                    /\ h[i + 1][2] < h[i][2] => frame.chart[i][2] = 0)

\* The rx counter fell from 2500 to 500 and then rose to 1000: the chart
\* shows 0 for the fall and 500, from the new baseline, for the rise.
C19_Witness ==
    /\ run_pc = "ret"
    /\ current_view = "Network"
    /\ Values(network_history) =
         <<(<<2500, 500>>), (<<500, 1200>>), (<<1000, 500>>)>>
    /\ frame.chart = <<(<<0, 700>>), (<<500, 0>>)>>

\* C20: the shared state changes only in steps of the sampler's update,
\* which leave the view and the quit flag alone; the view and the quit
\* flag change only in a key dispatch, which leaves the shared state alone.
C20_SingleWriter ==
    [][/\ shared' # shared =>
             /\ UpdateRunning
             /\ mutex.holder = "sampler"
             /\ sampler_pc' # sampler_pc
             /\ dash' = dash
             /\ run_pc' = run_pc
       /\ dash' # dash =>
             /\ Dispatch
             /\ shared' = shared
             /\ sampler_pc' = sampler_pc]_vars

\* Updates have run, keys were dispatched, and a render pass has read.
C20_Witness ==
    /\ cycle = 2
    /\ Len(cpu_history) = 2
    /\ current_view = "Network"
    /\ run_pc = "ret"
    /\ frame.hist = 2

\* The step of run from one program point to another.
RunMoves == run_pc' # run_pc

\* C21: an iteration of the loop starts one render pass, of the view that
\* is current at that moment, completes it, and then polls once, whether
\* the previous poll timed out or delivered an event; a poll is followed by
\* at most one read and dispatch, after which the next iteration starts, so
\* the view a key selects is the view the next pass renders.
C21_OneRenderOnePoll ==
    [][/\ (RunMoves /\ run_pc = "loop") =>
             run_pc' = IF should_quit THEN "disable_raw" ELSE "draw"
       /\ (RunMoves /\ run_pc' = "draw") => run_pc = "loop"
       /\ (RunMoves /\ run_pc = "draw") =>
             /\ frame'.view = current_view
             /\ frame'.status # "none"
             /\ run_pc' \in {"snap", "err_ret", "flush"}
       /\ (RunMoves /\ run_pc' = "flush") =>
             /\ run_pc \in {"draw", "ret", "err_ret"}
             /\ frame'.view = current_view
             /\ frame'.status # "none"
       /\ (RunMoves /\ run_pc = "flush") => run_pc' \in {"poll", "returned"}
       /\ (RunMoves /\ run_pc' = "poll") => run_pc = "flush"
       /\ (RunMoves /\ run_pc = "poll") =>
             /\ run_pc' \in {"loop", "read", "returned"}
             /\ dash' = dash
       /\ (RunMoves /\ run_pc' = "read") => run_pc = "poll"
       /\ (RunMoves /\ run_pc = "read") => run_pc' \in {"loop", "returned"}
       /\ (RunMoves /\ run_pc' = "loop") => run_pc \in {"clear", "poll", "read"}
       /\ current_view' # current_view => Dispatch]_vars

\* A right arrow was dispatched in the first iteration and the pass of the
\* second iteration has rendered the view it selected.
C21_Witness ==
    /\ run_pc = "flush"
    /\ nav = 1
    /\ current_view = "Cpu"
    /\ frame.view = "Cpu"
    /\ frame.status = "ok"

\* C22: a failed I/O call of run (raw mode, terminal setup, clear, draw,
\* poll, read) makes run return the error at once: the failing step
\* dispatches nothing and renders nothing, and nothing of run happens after
\* it.
C22_IoErrorFatal ==
    /\ [][(run_result = "running" /\ run_result' = "err") =>
             /\ run_pc \in {"enable_raw", "term_new", "clear", "flush",
                            "poll", "read", "disable_raw", "final_clear"}
             /\ run_pc' = "returned"
             /\ dash' = dash
             /\ frame' = frame
             /\ shared' = shared]_vars
    /\ [][run_result = "err" =>
             /\ run_pc' = run_pc
             /\ run_result' = run_result
             /\ dash' = dash
             /\ frame' = frame]_vars
    /\ [](run_result = "err" => run_pc = "returned")

\* event::read failed on a pending right arrow: run returned the error and
\* the key was not dispatched.
C22_Witness ==
    /\ run_result = "err"
    /\ run_pc = "returned"
    /\ event = "Right"
    /\ current_view = "Overview"
    /\ nav = 0
    /\ raw_mode

\* C23: the dashboard starts on Overview with the quit flag unset, the view
\* changes only in the dispatch of a left or right arrow, and at every
\* moment it is Overview advanced by (right arrows - left arrows dispatched
\* so far) modulo 6.
C23_ViewIsNetArrows ==
    /\ [](run_pc = "enable_raw" =>
             /\ current_view = "Overview"
             /\ ~should_quit
             /\ nav = 0)
    /\ [](current_view = ViewOrder[nav + 1])
    /\ [][current_view' # current_view =>
             /\ Dispatch
             /\ event \in {"Left", "Right"}]_vars

\* One left arrow from Overview: the net count is -1, that is 5 modulo 6.
C23_Witness ==
    /\ run_pc = "loop"
    /\ event = "Left"
    /\ nav = 5
    /\ current_view = "Processes"

\* The step of the sampler thread from one program point to another.
SamplerMoves == sampler_pc' # sampler_pc

\* The cycle tags of a series go up by one from each entry to the next.
OnePerCycle(h) == \A i \in 2..Len(h) : h[i].cycle = h[i - 1].cycle + 1

\* C24: the sampler takes the lock, samples and updates under it, releases
\* it and then sleeps, in that order; after the sleep it asks for the lock
\* again, and it does so whatever the quit flag says, for as long as the
\* process runs; however long a cycle was delayed, the next update appends
\* the entries of one cycle only.
C24_SamplerCycle ==
    /\ [][/\ (SamplerMoves /\ sampler_pc' = "refresh") =>
                /\ sampler_pc = "lock"
                /\ mutex.holder = "none"
                /\ mutex'.holder = "sampler"
          /\ (cycle' # cycle) =>
                /\ sampler_pc = "refresh"
                /\ mutex.holder = "sampler"
                /\ cycle' = cycle + 1
          /\ (SamplerMoves /\ sampler_pc = "unlock") =>
                /\ sampler_pc' = "sleep"
          /\ (SamplerMoves /\ sampler_pc' = "sleep") =>
                /\ sampler_pc = "unlock"
                /\ mutex.holder = "sampler"
                /\ mutex'.holder = "none"
          /\ (SamplerMoves /\ sampler_pc = "sleep") => sampler_pc' = "lock"
          /\ (SamplerMoves /\ sampler_pc' = "lock") => sampler_pc = "sleep"
         ]_vars
    /\ []((ProcessAlive /\ sampler_pc = "sleep") => ENABLED SamplerSleep)
    /\ [](/\ OnePerCycle(cpu_history)
          /\ OnePerCycle(memory_history)
          /\ OnePerCycle(network_history)
          /\ \A k \in 1..cycle : AppendedBy(disk_history, k) <= NumProcs(k))
    /\ (ProcessAlive /\ sampler_pc = "sleep" /\ cycle < MaxUpdates) ~>
         (sampler_pc = "refresh" \/ ~ProcessAlive)

\* The quit key was dispatched, run has not returned yet, and the sampler
\* has finished another cycle and sleeps.
C24_Witness ==
    /\ should_quit
    /\ run_pc = "disable_raw"
    /\ sampler_pc = "sleep"
    /\ mutex.holder = "none"
    /\ cycle = 3
    /\ Len(cpu_history) = 3

====
